---- MODULE Spec2Model ----
(***************************************************************************)
(* Model of src/main.py: the per-message dispatch (handle_message), its    *)
(* accessors (get_or_create_user, get_semantic_memories,                   *)
(* get_weather_context) and the detached evolution worker                  *)
(* (background_evolution), over the three Supabase tables user_profile,    *)
(* chat_logs and long_term_memories.                                       *)
(*                                                                         *)
(* Text is a sequence of characters.  A character outside ASCII is written *)
(* as its code point, "U+5929", because the strings are kept in ASCII.     *)
(*                                                                         *)
(* Scheduling.  Python suspends a coroutine only at an await that really   *)
(* yields.  get_or_create_user and get_semantic_memories contain no await  *)
(* (the Supabase and Gemini clients are called synchronously), so          *)
(* handle_message runs from its first line to the call of reply_text at    *)
(* line 132 (or 138) in one step of the event loop, and                    *)
(* background_evolution, which awaits nothing, runs from start to end in   *)
(* one step.  The event loop runs the tasks made by asyncio.create_task in *)
(* the order of their creation.                                            *)
(***************************************************************************)
EXTENDS Integers, Sequences, FiniteSets, TLC

\* ------------------------------------------------------------------ bounds
\* number of inbound updates the model delivers
MaxMsgs == 2

Msgs == 1..MaxMsgs

\* number of remote calls that fail in one run
MaxFaults == 2

\* the chat participants that send updates (update.effective_user.id)
Users == {42}

\* the profile of a participant of an earlier run, who sends nothing in this
\* one: the tables outlive the process
Bystander == [user_id |-> 7, personality_summary |-> <<"q", "u", "i", "e", "t">>]

\* --------------------------------------------------------- string literals
\* "天氣", the weather keyword of line 65
KwTianQi == <<"U+5929", "U+6C23">>
\* "weather", the other keyword of line 65
KwWeather == <<"w", "e", "a", "t", "h", "e", "r">>
\* the value "觀察中" of line 45
Sentinel == <<"U+89C0", "U+5BDF", "U+4E2D">>
\* the form of address "閣下" of line 119
GeXia == <<"U+95A3", "U+4E0B">>
\* the placeholder of line 58 for an empty search result
NoMemories == <<"U+5C1A", "U+7121", "U+76F8", "U+95DC", "U+56DE", "U+61B6", "U+3002">>
\* the fixed apology of line 138
Apology == <<"U+62B1", "U+6B49", "U+FF0C", "U+95A3", "U+4E0B", "U+3002",
             "U+6211", "U+7684", "U+601D", "U+7DD2", "U+7A0D", "U+5FAE",
             "U+7D0A", "U+4E82", "U+4E86", "U+FF0C", "U+8ACB", "U+5BB9",
             "U+6211", "U+91CD", "U+65B0", "U+6574", "U+7406", "U+3002">>
\* the separator of the join of line 58
NL == <<"\n">>

\* the city names of lines 69 and 72-75
Taipei == <<"T", "a", "i", "p", "e", "i">>
Taichung == <<"T", "a", "i", "c", "h", "u", "n", "g">>
Kaohsiung == <<"K", "a", "o", "h", "s", "i", "u", "n", "g">>
Tainan == <<"T", "a", "i", "n", "a", "n">>
Hsinchu == <<"H", "s", "i", "n", "c", "h", "u">>
Taoyuan == <<"T", "a", "o", "y", "u", "a", "n">>

\* city_map of lines 71-76, in insertion order (the order of dict.items())
city_map ==
  << [k |-> <<"U+53F0", "U+5317">>, v |-> Taipei],
     [k |-> <<"U+81FA", "U+5317">>, v |-> Taipei],
     [k |-> <<"U+53F0", "U+4E2D">>, v |-> Taichung],
     [k |-> <<"U+81FA", "U+4E2D">>, v |-> Taichung],
     [k |-> <<"U+9AD8", "U+96C4">>, v |-> Kaohsiung],
     [k |-> <<"U+53F0", "U+5357">>, v |-> Tainan],
     [k |-> <<"U+65B0", "U+7AF9">>, v |-> Hsinchu],
     [k |-> <<"U+6843", "U+5712">>, v |-> Taoyuan] >>

\* ------------------------------------------------------------ the inputs
\* "你好": no keyword
TextHello == <<"U+4F60", "U+597D">>
\* "台北天氣如何": keyword and a known city
TextTaipeiWeather == <<"U+53F0", "U+5317", "U+5929", "U+6C23", "U+5982", "U+4F55">>

\* the texts an update can carry
Texts == {TextHello, TextTaipeiWeather}

\* ------------------------------------------------------- string functions
\* str.lower() on the characters the inputs use
LowerChar(c) ==
  CASE c = "W" -> "w"
    [] c = "E" -> "e"
    [] c = "A" -> "a"
    [] c = "T" -> "t"
    [] c = "H" -> "h"
    [] c = "R" -> "r"
    [] OTHER -> c

Lower(s) == [i \in 1..Len(s) |-> LowerChar(s[i])]

\* the Python operator  sub in s  on strings
Contains(s, sub) ==
  \E i \in 0..(Len(s) - Len(sub)) :
     \A j \in 1..Len(sub) : s[i + j] = sub[j]

RECURSIVE Join(_, _)
\* sep.join(parts)
Join(sep, parts) ==
  IF parts = <<>> THEN <<>>
  ELSE IF Len(parts) = 1 THEN parts[1]
  ELSE parts[1] \o sep \o Join(sep, Tail(parts))

\* ------------------------------------------------- the hosted services
\* client.models.generate_content(model, contents).text: the text the model
\* returns is a function of the request, kept as the request itself
generate_content(model, contents) == <<model, "(">> \o contents \o <<")">>

\* client.models.embed_content(model, contents).embeddings[0].values
embed_content(model, contents) == <<model, "(">> \o contents \o <<")">>

\* the column default of user_profile.personality_summary, which the insert
\* of line 40 leaves to the table
ProfileColumnDefault == Sentinel

\* "match_count" of line 55
match_count == 3

\* the answers the similarity search can give for a user: up to match_count
\* memory rows of that user, in any order (the order of similarity)
match_memories(table, p_user_id) ==
  LET own == {i \in 1..Len(table) : table[i].user_id = p_user_id}
  IN  {h \in UNION {[1..n -> own] : n \in 0..match_count} :
         \A i, j \in 1..Len(h) : i # j => h[i] # h[j]}

\* the answers of the weather service: the request raises (timeout, no
\* connection), or it returns a status and a payload
WeatherResponses ==
  { [raised |-> TRUE, status_code |-> 0, wellformed |-> FALSE, has_zh |-> FALSE],
    [raised |-> FALSE, status_code |-> 500, wellformed |-> TRUE, has_zh |-> TRUE],
    [raised |-> FALSE, status_code |-> 200, wellformed |-> FALSE, has_zh |-> FALSE],
    [raised |-> FALSE, status_code |-> 200, wellformed |-> TRUE, has_zh |-> TRUE],
    [raised |-> FALSE, status_code |-> 200, wellformed |-> TRUE, has_zh |-> FALSE] }

\* the answers the dispatch is run with: the payloads that carry 'lang_zh-TV'
\* and the failures
DispatchResponses == {r \in WeatherResponses : r.has_zh \/ ~r.wellformed}

\* the fields of current_condition[0] in a well-formed payload
WxDescZh == <<"U+6674">>
WxDescEn == <<"S", "u", "n", "n", "y">>
WxTempC == <<"2", "5">>
WxFeelsLikeC == <<"2", "7">>

\* line 92 up to the city: "\n[" and the title of the block
WxHead ==
  << "\n", "[", "U+5373", "U+6642", "U+5929", "U+6C23", "U+6578", "U+64DA",
     " ", "-", " " >>

\* line 92 between the city and the description
WxState ==
  << "]", " ", "U+72C0", "U+614B", "U+FF1A" >>

\* line 92 between the description and the temperature
WxTemp ==
  << "U+FF0C", "U+6C23", "U+6EAB", "U+FF1A" >>

\* line 92 between the temperature and the perceived temperature
WxFeels ==
  << "U+00B0", "C", " ", "(", "U+9AD4", "U+611F", " " >>

\* line 92 after the perceived temperature
WxTail ==
  << "U+00B0", "C", ")", "U+3002", "(", "U+8ACB", "U+4F9D", "U+64DA",
     "U+6B64", "U+6578", "U+64DA", "U+56DE", "U+7B54", "U+FF0C", "U+4E0D",
     "U+53EF", "U+778E", "U+63B0", ")" >>

\* ---------------------------------------------------------- the accessors
\* get_or_create_user that takes a failed lookup for an absent profile and
\* goes on to the insert
get_or_create_user_InsertsOnFailure(table, uid, sel_ok, ins_ok) ==
  LET synthetic == [personality_summary |-> Sentinel, user_id |-> uid]
      res == IF sel_ok THEN SelectSeq(table, LAMBDA r : r.user_id = uid) ELSE <<>>
      row == [user_id |-> uid, personality_summary |-> ProfileColumnDefault]
      out(p, t, f) == [ret |-> p, table |-> t, failed |-> f, raised |-> FALSE]
  IN  IF res = <<>>
      THEN IF ~ins_ok
           THEN out(synthetic, table, TRUE)
           ELSE out(row, Append(table, row), ~sel_ok)
      ELSE out(res[1], table, FALSE)

\* get_or_create_user without the test of line 39: it inserts on every call
get_or_create_user_AlwaysInserts(table, uid, sel_ok, ins_ok) ==
  LET synthetic == [personality_summary |-> Sentinel, user_id |-> uid]
      row == [user_id |-> uid, personality_summary |-> ProfileColumnDefault]
      out(p, t, f) == [ret |-> p, table |-> t, failed |-> f, raised |-> FALSE]
  IN  IF ~sel_ok \/ ~ins_ok THEN out(synthetic, table, TRUE)
      ELSE out(row, Append(table, row), FALSE)

\* get_or_create_user with an upsert of {"user_id": user_id} in place of the
\* select and insert: an existing row is set back to the column default
get_or_create_user_Upsert(table, uid, sel_ok, ins_ok) ==
  LET synthetic == [personality_summary |-> Sentinel, user_id |-> uid]
      res == SelectSeq(table, LAMBDA r : r.user_id = uid)
      row == [user_id |-> uid, personality_summary |-> ProfileColumnDefault]
      out(p, t, f) == [ret |-> p, table |-> t, failed |-> f, raised |-> FALSE]
  IN  IF ~sel_ok \/ ~ins_ok THEN out(synthetic, table, TRUE)
      ELSE IF res = <<>> THEN out(row, Append(table, row), FALSE)
      ELSE out(row, [i \in 1..Len(table) |->
                       IF table[i].user_id = uid THEN row ELSE table[i]], FALSE)

\* lines 36-45.  sel_ok, ins_ok: whether the select and the insert succeed.
\* Returns the profile, the table after the call, whether a call failed
\* (line 44) and whether an exception leaves the function.
get_or_create_user(table, uid, sel_ok, ins_ok) ==
  LET synthetic == [personality_summary |-> Sentinel, user_id |-> uid]
      res == SelectSeq(table, LAMBDA r : r.user_id = uid)
      row == [user_id |-> uid, personality_summary |-> ProfileColumnDefault]
      out(p, t, f) == [ret |-> p, table |-> t, failed |-> f, raised |-> FALSE]
  IN  IF ~sel_ok THEN out(synthetic, table, TRUE)
      ELSE IF res = <<>>
           THEN IF ~ins_ok
                THEN out(synthetic, table, TRUE)
                ELSE out(row, Append(table, row), FALSE)
           ELSE out(res[1], table, FALSE)

\* get_semantic_memories without its try: a failing call raises to the
\* caller
get_semantic_memories_Propagates(table, uid, text, emb_ok, rpc_ok, hits) ==
  LET data == [i \in 1..Len(hits) |-> table[hits[i]].content]
  IN  IF ~emb_ok \/ ~rpc_ok
      THEN [ret |-> <<>>, failed |-> TRUE, raised |-> TRUE]
      ELSE [ret |-> IF data # <<>> THEN Join(NL, data) ELSE NoMemories,
            failed |-> FALSE, raised |-> FALSE]

\* get_semantic_memories that joins the contents with a blank
get_semantic_memories_SpaceJoin(table, uid, text, emb_ok, rpc_ok, hits) ==
  LET data == [i \in 1..Len(hits) |-> table[hits[i]].content]
      out(c, f) == [ret |-> c, failed |-> f, raised |-> FALSE]
  IN  IF ~emb_ok \/ ~rpc_ok THEN out(<<>>, TRUE)
      ELSE IF data # <<>> THEN out(Join(<<" ">>, data), FALSE)
      ELSE out(NoMemories, FALSE)

\* lines 47-61.  emb_ok, rpc_ok: whether the embedding and the search
\* succeed; hits: the rows the search returns, as indices of the table.
\* Returns the context, whether a call failed (line 60) and whether an
\* exception leaves the function.
get_semantic_memories(table, uid, text, emb_ok, rpc_ok, hits) ==
  LET data == [i \in 1..Len(hits) |-> table[hits[i]].content]
      out(c, f) == [ret |-> c, failed |-> f, raised |-> FALSE]
  IN  IF ~emb_ok \/ ~rpc_ok THEN out(<<>>, TRUE)
      ELSE IF data # <<>> THEN out(Join(NL, data), FALSE) ELSE out(NoMemories, FALSE)

RECURSIVE FirstCity_NoBreak(_, _)
\* the loop of lines 77-80 without the break of line 80: the last entry of
\* city_map found in the text stands
FirstCity_NoBreak(text, i) ==
  IF i > Len(city_map) THEN Taipei
  ELSE LET rest == FirstCity_NoBreak(text, i + 1)
       IN  IF Contains(text, city_map[i].k)
              /\ \A j \in (i + 1)..Len(city_map) : ~Contains(text, city_map[j].k)
           THEN city_map[i].v
           ELSE rest

RECURSIVE FirstCity(_, _)
\* the loop of lines 77-80 from entry i of city_map on
FirstCity(text, i) ==
  IF i > Len(city_map) THEN Taipei
  ELSE IF Contains(text, city_map[i].k) THEN city_map[i].v
  ELSE FirstCity(text, i + 1)

\* get_weather_context without the test of line 86: the payload of any
\* answer is formatted
get_weather_context_IgnoresStatus(text, resp) ==
  IF ~Contains(text, KwTianQi) /\ ~Contains(Lower(text), KwWeather)
  THEN [ret |-> <<>>, looked_up |-> <<>>, raised |-> FALSE]
  ELSE LET city == FirstCity(text, 1)
           desc == IF resp.has_zh THEN WxDescZh ELSE WxDescEn
      IN  IF ~resp.raised /\ resp.wellformed
          THEN [ret |-> WxHead \o city \o WxState \o desc \o WxTemp \o WxTempC
                         \o WxFeels \o WxFeelsLikeC \o WxTail,
                looked_up |-> city, raised |-> FALSE]
          ELSE [ret |-> <<>>, looked_up |-> city, raised |-> FALSE]

\* lines 63-96.  resp: the answer of the weather service.  Returns the
\* enrichment, the city looked up (empty when no request is made) and
\* whether an exception leaves the function.
get_weather_context(text, resp) ==
  IF ~Contains(text, KwTianQi) /\ ~Contains(Lower(text), KwWeather)
  THEN [ret |-> <<>>, looked_up |-> <<>>, raised |-> FALSE]
  ELSE LET city == FirstCity(text, 1)
           desc == IF resp.has_zh THEN WxDescZh ELSE WxDescEn
      IN  IF ~resp.raised /\ resp.status_code = 200 /\ resp.wellformed
          THEN [ret |-> WxHead \o city \o WxState \o desc \o WxTemp \o WxTempC
                         \o WxFeels \o WxFeelsLikeC \o WxTail,
                looked_up |-> city, raised |-> FALSE]
          ELSE [ret |-> <<>>, looked_up |-> city, raised |-> FALSE]

\* lines 112-129: the contents of the generation request
Prompt(profile, past_memories, weather_info, user_input) ==
  LET title == IF profile.personality_summary # <<>>
               THEN profile.personality_summary ELSE GeXia
  IN  <<"[role; address: ">> \o title \o <<"; memories: ">> \o past_memories
        \o <<"\n">> \o weather_info \o <<"]", "\n", "\n", "now says: ">>
        \o user_input

\* line 159
ReflectPrompt(text, old_summary) ==
  <<"analyse: ">> \o text \o <<"; current: ">> \o old_summary

\* background_evolution as one transaction: a failure of the reflection
\* takes the two inserts back
background_evolution_Rollback(db, uid, text, old_summary, reply, ok) ==
  LET log_row == [user_id |-> uid, user_text |-> text, bot_text |-> reply]
      emb == embed_content("text-embedding-004", text)
      mem_row == [user_id |-> uid, content |-> text, embedding |-> emb]
      prompt == ReflectPrompt(text, old_summary)
      res_text == generate_content("gemini-3-flash-preview", prompt)
      dbA == [db EXCEPT !.chat_logs = Append(@, log_row)]
      dbB == [dbA EXCEPT !.long_term_memories = Append(@, mem_row)]
      dbC == [dbB EXCEPT !.user_profile =
                [i \in 1..Len(@) |->
                   IF @[i].user_id = uid
                   THEN [@[i] EXCEPT !.personality_summary = res_text]
                   ELSE @[i]]]
      out(d, calls, raised, caught, asked, stored) ==
        [db |-> d, calls |-> calls, raised |-> raised, caught |-> caught,
         prompt |-> asked, stored |-> stored]
  IN  IF ~ok.log THEN out(db, <<"log">>, {"log"}, "outer", <<>>, <<>>)
      ELSE IF ~ok.embed
           THEN out(dbA, <<"log", "embed">>, {"embed"}, "outer", <<>>, <<>>)
      ELSE IF ~ok.mem
           THEN out(dbA, <<"log", "embed", "mem">>, {"mem"}, "outer", <<>>, <<>>)
      ELSE IF ~ok.reflect
           THEN out(db, <<"log", "embed", "mem", "reflect">>, {"reflect"},
                    "inner", prompt, <<>>)
      ELSE IF ~ok.update
           THEN out(dbB, <<"log", "embed", "mem", "reflect", "update">>,
                    {"update"}, "inner", prompt, <<>>)
      ELSE out(dbC, <<"log", "embed", "mem", "reflect", "update">>, {}, "none",
               prompt, res_text)

\* background_evolution with a guarded write-back: the update of line 165
\* also filters on the summary the dispatch had read
background_evolution_CompareAndSet(db, uid, text, old_summary, reply, ok) ==
  LET log_row == [user_id |-> uid, user_text |-> text, bot_text |-> reply]
      emb == embed_content("text-embedding-004", text)
      mem_row == [user_id |-> uid, content |-> text, embedding |-> emb]
      prompt == ReflectPrompt(text, old_summary)
      res_text == generate_content("gemini-3-flash-preview", prompt)
      dbA == [db EXCEPT !.chat_logs = Append(@, log_row)]
      dbB == [dbA EXCEPT !.long_term_memories = Append(@, mem_row)]
      dbC == [dbB EXCEPT !.user_profile =
                [i \in 1..Len(@) |->
                   IF @[i].user_id = uid /\ @[i].personality_summary = old_summary
                   THEN [@[i] EXCEPT !.personality_summary = res_text]
                   ELSE @[i]]]
      out(d, calls, raised, caught, asked, stored) ==
        [db |-> d, calls |-> calls, raised |-> raised, caught |-> caught,
         prompt |-> asked, stored |-> stored]
  IN  IF ~ok.log THEN out(db, <<"log">>, {"log"}, "outer", <<>>, <<>>)
      ELSE IF ~ok.embed
           THEN out(dbA, <<"log", "embed">>, {"embed"}, "outer", <<>>, <<>>)
      ELSE IF ~ok.mem
           THEN out(dbA, <<"log", "embed", "mem">>, {"mem"}, "outer", <<>>, <<>>)
      ELSE IF ~ok.reflect
           THEN out(dbB, <<"log", "embed", "mem", "reflect">>, {"reflect"},
                    "inner", prompt, <<>>)
      ELSE IF ~ok.update
           THEN out(dbB, <<"log", "embed", "mem", "reflect", "update">>,
                    {"update"}, "inner", prompt, <<>>)
      ELSE out(dbC, <<"log", "embed", "mem", "reflect", "update">>, {}, "none",
               prompt, res_text)

\* background_evolution that stores a text once: the memory insert is left
\* out when the user already has a memory row with the same content
background_evolution_Dedup(db, uid, text, old_summary, reply, ok) ==
  LET log_row == [user_id |-> uid, user_text |-> text, bot_text |-> reply]
      emb == embed_content("text-embedding-004", text)
      mem_row == [user_id |-> uid, content |-> text, embedding |-> emb]
      prompt == ReflectPrompt(text, old_summary)
      res_text == generate_content("gemini-3-flash-preview", prompt)
      known == \E i \in 1..Len(db.long_term_memories) :
                 /\ db.long_term_memories[i].user_id = uid
                 /\ db.long_term_memories[i].content = text
      dbA == [db EXCEPT !.chat_logs = Append(@, log_row)]
      dbB == IF known THEN dbA
             ELSE [dbA EXCEPT !.long_term_memories = Append(@, mem_row)]
      dbC == [dbB EXCEPT !.user_profile =
                [i \in 1..Len(@) |->
                   IF @[i].user_id = uid
                   THEN [@[i] EXCEPT !.personality_summary = res_text]
                   ELSE @[i]]]
      out(d, calls, raised, caught, asked, stored) ==
        [db |-> d, calls |-> calls, raised |-> raised, caught |-> caught,
         prompt |-> asked, stored |-> stored]
  IN  IF ~ok.log THEN out(db, <<"log">>, {"log"}, "outer", <<>>, <<>>)
      ELSE IF ~ok.embed
           THEN out(dbA, <<"log", "embed">>, {"embed"}, "outer", <<>>, <<>>)
      ELSE IF ~ok.mem
           THEN out(dbA, <<"log", "embed", "mem">>, {"mem"}, "outer", <<>>, <<>>)
      ELSE IF ~ok.reflect
           THEN out(dbB, <<"log", "embed", "mem", "reflect">>, {"reflect"},
                    "inner", prompt, <<>>)
      ELSE IF ~ok.update
           THEN out(dbB, <<"log", "embed", "mem", "reflect", "update">>,
                    {"update"}, "inner", prompt, <<>>)
      ELSE out(dbC, <<"log", "embed", "mem", "reflect", "update">>, {}, "none",
               prompt, res_text)

\* background_evolution that tries again: when a call of the outer try
\* raises, the handler of line 171 runs the three steps once more
background_evolution_Retry(db, uid, text, old_summary, reply, ok) ==
  LET log_row == [user_id |-> uid, user_text |-> text, bot_text |-> reply]
      emb == embed_content("text-embedding-004", text)
      mem_row == [user_id |-> uid, content |-> text, embedding |-> emb]
      prompt == ReflectPrompt(text, old_summary)
      res_text == generate_content("gemini-3-flash-preview", prompt)
      all == <<"log", "embed", "mem", "reflect", "update">>
      dbA == [db EXCEPT !.chat_logs = Append(@, log_row)]
      dbB == [dbA EXCEPT !.long_term_memories = Append(@, mem_row)]
      again(d) ==
        [d EXCEPT !.chat_logs = Append(@, log_row),
                  !.long_term_memories = Append(@, mem_row),
                  !.user_profile =
                     [i \in 1..Len(@) |->
                        IF @[i].user_id = uid
                        THEN [@[i] EXCEPT !.personality_summary = res_text]
                        ELSE @[i]]]
      out(d, calls, raised, caught, asked, stored) ==
        [db |-> d, calls |-> calls, raised |-> raised, caught |-> caught,
         prompt |-> asked, stored |-> stored]
  IN  IF ~ok.log
      THEN out(again(db), <<"log">> \o all, {"log"}, "outer", prompt, res_text)
      ELSE IF ~ok.embed
           THEN out(again(dbA), <<"log", "embed">> \o all, {"embed"}, "outer",
                    prompt, res_text)
      ELSE IF ~ok.mem
           THEN out(again(dbA), <<"log", "embed", "mem">> \o all, {"mem"}, "outer",
                    prompt, res_text)
      ELSE IF ~ok.reflect
           THEN out(dbB, <<"log", "embed", "mem", "reflect">>, {"reflect"},
                    "inner", prompt, <<>>)
      ELSE IF ~ok.update
           THEN out(dbB, <<"log", "embed", "mem", "reflect", "update">>,
                    {"update"}, "inner", prompt, <<>>)
      ELSE out(again(db), all, {}, "none", prompt, res_text)

\* background_evolution that reads the profile again: the reflection request
\* is made of the summary stored when the worker runs, not of old_summary
background_evolution_Rereads(db, uid, text, old_summary, reply, ok) ==
  LET log_row == [user_id |-> uid, user_text |-> text, bot_text |-> reply]
      emb == embed_content("text-embedding-004", text)
      mem_row == [user_id |-> uid, content |-> text, embedding |-> emb]
      own == SelectSeq(db.user_profile, LAMBDA r : r.user_id = uid)
      current == IF own = <<>> THEN old_summary ELSE own[1].personality_summary
      prompt == ReflectPrompt(text, current)
      res_text == generate_content("gemini-3-flash-preview", prompt)
      dbA == [db EXCEPT !.chat_logs = Append(@, log_row)]
      dbB == [dbA EXCEPT !.long_term_memories = Append(@, mem_row)]
      dbC == [dbB EXCEPT !.user_profile =
                [i \in 1..Len(@) |->
                   IF @[i].user_id = uid
                   THEN [@[i] EXCEPT !.personality_summary = res_text]
                   ELSE @[i]]]
      out(d, calls, raised, caught, asked, stored) ==
        [db |-> d, calls |-> calls, raised |-> raised, caught |-> caught,
         prompt |-> asked, stored |-> stored]
  IN  IF ~ok.log THEN out(db, <<"log">>, {"log"}, "outer", <<>>, <<>>)
      ELSE IF ~ok.embed
           THEN out(dbA, <<"log", "embed">>, {"embed"}, "outer", <<>>, <<>>)
      ELSE IF ~ok.mem
           THEN out(dbA, <<"log", "embed", "mem">>, {"mem"}, "outer", <<>>, <<>>)
      ELSE IF ~ok.reflect
           THEN out(dbB, <<"log", "embed", "mem", "reflect">>, {"reflect"},
                    "inner", prompt, <<>>)
      ELSE IF ~ok.update
           THEN out(dbB, <<"log", "embed", "mem", "reflect", "update">>,
                    {"update"}, "inner", prompt, <<>>)
      ELSE out(dbC, <<"log", "embed", "mem", "reflect", "update">>, {}, "none",
               prompt, res_text)

\* background_evolution with a try of its own around each of the three
\* steps: a step is attempted whatever became of the steps before it
background_evolution_Independent(db, uid, text, old_summary, reply, ok) ==
  LET log_row == [user_id |-> uid, user_text |-> text, bot_text |-> reply]
      emb == embed_content("text-embedding-004", text)
      mem_row == [user_id |-> uid, content |-> text, embedding |-> emb]
      prompt == ReflectPrompt(text, old_summary)
      res_text == generate_content("gemini-3-flash-preview", prompt)
      dbA == IF ok.log THEN [db EXCEPT !.chat_logs = Append(@, log_row)] ELSE db
      dbB == IF ok.embed /\ ok.mem
             THEN [dbA EXCEPT !.long_term_memories = Append(@, mem_row)]
             ELSE dbA
      dbC == IF ok.reflect /\ ok.update
             THEN [dbB EXCEPT !.user_profile =
                     [i \in 1..Len(@) |->
                        IF @[i].user_id = uid
                        THEN [@[i] EXCEPT !.personality_summary = res_text]
                        ELSE @[i]]]
             ELSE dbB
      calls == <<"log", "embed">> \o (IF ok.embed THEN <<"mem">> ELSE <<>>)
                 \o <<"reflect">> \o (IF ok.reflect THEN <<"update">> ELSE <<>>)
      raised == {c \in {calls[i] : i \in 1..Len(calls)} : ~ok[c]}
  IN  [db |-> dbC, calls |-> calls, raised |-> raised,
       caught |-> IF raised = {} THEN "none" ELSE "inner",
       prompt |-> prompt,
       stored |-> IF ok.reflect /\ ok.update THEN res_text ELSE <<>>]

\* lines 140-172.  db: the three tables; ok: which of the five remote calls
\* of the worker succeed.  Returns the tables after the worker, the calls it
\* made in order, the calls that raised, the handler that caught the
\* exception ("inner": line 168, "outer": line 171), the reflection request
\* and the summary the worker stored.
background_evolution(db, uid, text, old_summary, reply, ok) ==
  LET log_row == [user_id |-> uid, user_text |-> text, bot_text |-> reply]
      emb == embed_content("text-embedding-004", text)
      mem_row == [user_id |-> uid, content |-> text, embedding |-> emb]
      res_text == generate_content("gemini-3-flash-preview",
                                   ReflectPrompt(text, old_summary))
      dbA == [db EXCEPT !.chat_logs = Append(@, log_row)]
      dbB == [dbA EXCEPT !.long_term_memories = Append(@, mem_row)]
      dbC == [dbB EXCEPT !.user_profile =
                [i \in 1..Len(@) |->
                   IF @[i].user_id = uid
                   THEN [@[i] EXCEPT !.personality_summary = res_text]
                   ELSE @[i]]]
      prompt == ReflectPrompt(text, old_summary)
      out(d, calls, raised, caught, asked, stored) ==
        [db |-> d, calls |-> calls, raised |-> raised, caught |-> caught,
         prompt |-> asked, stored |-> stored]
  IN  IF ~ok.log THEN out(db, <<"log">>, {"log"}, "outer", <<>>, <<>>)
      ELSE IF ~ok.embed
           THEN out(dbA, <<"log", "embed">>, {"embed"}, "outer", <<>>, <<>>)
      ELSE IF ~ok.mem
           THEN out(dbA, <<"log", "embed", "mem">>, {"mem"}, "outer", <<>>, <<>>)
      ELSE IF ~ok.reflect
           THEN out(dbB, <<"log", "embed", "mem", "reflect">>, {"reflect"},
                    "inner", prompt, <<>>)
      ELSE IF ~ok.update
           THEN out(dbB, <<"log", "embed", "mem", "reflect", "update">>,
                    {"update"}, "inner", prompt, <<>>)
      ELSE out(dbC, <<"log", "embed", "mem", "reflect", "update">>, {}, "none",
               prompt, res_text)

\* ----------------------------------------------------------------- state
VARIABLES
  pc,                  \* where handle_message stands for each update
  user_id,             \* line 103
  user_input,          \* line 104
  profile,             \* line 107
  past_memories,       \* line 108
  weather_info,        \* line 109
  bot_reply,           \* line 131
  outbox,              \* the messages delivered to the chat, per update
  user_profile,        \* table user_profile
  chat_logs,           \* table chat_logs
  long_term_memories,  \* table long_term_memories
  ready,               \* the tasks created by line 134 that have not run
  faults,              \* history: the steps of the dispatch that failed
  fetched,             \* history: the summary the profile fetch returned
  looked_up,           \* history: the city the weather request asked for
  spawned,             \* history: how often line 134 ran for the update
  wcalls,              \* history: the remote calls the worker made, in order
  wraised,             \* history: the worker calls that raised
  wcaught,             \* history: the handler that caught the exception
  wprompt,             \* history: the reflection request of the worker
  log_row,             \* history: the chat_logs row the worker wrote, or 0
  mem_row,             \* history: the long_term_memories row it wrote, or 0
  last_writer,         \* history: per user, the update whose worker was the
                       \* last to store a summary in the row of the user
  call,                \* an accessor called on its own: its arguments
  result               \* what that call returned

locals == <<user_id, user_input, profile, past_memories, weather_info, bot_reply>>
tables == <<user_profile, chat_logs, long_term_memories>>
whist == <<wcalls, wraised, wcaught, wprompt, log_row, mem_row, last_writer>>
dhist == <<faults, fetched, looked_up>>
alone == <<call, result>>
vars == <<pc, locals, outbox, tables, ready, dhist, spawned, whist, alone>>

RECURSIVE SumOver(_, _)
SumOver(f, S) ==
  IF S = {} THEN 0
  ELSE LET x == CHOOSE y \in S : TRUE
       IN  Cardinality(f[x]) + SumOver(f, S \ {x})

\* the remote calls that have failed so far
NFaults == SumOver(faults, Msgs) + SumOver(wraised, Msgs)

\* a local that holds nothing (before its assignment, after the return)
NoProfile == [user_id |-> 0, personality_summary |-> <<>>]

\* no accessor is called on its own
NoCall == [fn |-> "none"]

\* the process after construction (lines 31-32), before the first update
Idle ==
  /\ pc = [m \in Msgs |-> "new"]
  /\ user_id = [m \in Msgs |-> 0]
  /\ user_input = [m \in Msgs |-> <<>>]
  /\ profile = [m \in Msgs |-> NoProfile]
  /\ past_memories = [m \in Msgs |-> <<>>]
  /\ weather_info = [m \in Msgs |-> <<>>]
  /\ bot_reply = [m \in Msgs |-> <<>>]
  /\ outbox = [m \in Msgs |-> <<>>]
  /\ user_profile = <<Bystander>>
  /\ chat_logs = <<>>
  /\ long_term_memories = <<>>
  /\ ready = <<>>
  /\ faults = [m \in Msgs |-> {}]
  /\ fetched = [m \in Msgs |-> <<>>]
  /\ looked_up = [m \in Msgs |-> <<>>]
  /\ spawned = [m \in Msgs |-> 0]
  /\ wcalls = [m \in Msgs |-> <<>>]
  /\ wraised = [m \in Msgs |-> {}]
  /\ wcaught = [m \in Msgs |-> "none"]
  /\ wprompt = [m \in Msgs |-> <<>>]
  /\ log_row = [m \in Msgs |-> 0]
  /\ mem_row = [m \in Msgs |-> 0]
  /\ last_writer = [u \in Users |-> 0]

Init ==
  /\ Idle
  /\ call = NoCall
  /\ result = NoCall

\* the frame of handle_message is gone
DropLocals(m) ==
  /\ profile' = [profile EXCEPT ![m] = NoProfile]
  /\ past_memories' = [past_memories EXCEPT ![m] = <<>>]
  /\ weather_info' = [weather_info EXCEPT ![m] = <<>>]
  /\ bot_reply' = [bot_reply EXCEPT ![m] = <<>>]
  /\ UNCHANGED <<user_id, user_input>>

\* line 101: an update without message text returns at once
IgnoreUpdate(m) ==
  /\ pc[m] = "new"
  /\ \A k \in Msgs : k < m => pc[k] # "new"
  /\ pc' = [pc EXCEPT ![m] = "done"]
  /\ UNCHANGED <<locals, outbox, tables, ready, dhist, spawned, whist, alone>>

\* the remote calls of lines 107-126 that an input can make fail
DispatchCalls == {"select", "insert", "embed", "rpc", "generate"}

\* HandleMessage with a get_or_create_user that yields to the event loop
\* between its select and its insert: the select was answered before the
\* dispatches that now wait at line 132 made their insert
HandleMessage_YieldsInFetch(m) ==
  /\ pc[m] = "new"
  /\ \A k \in Msgs : k < m => pc[k] # "new"
  /\ LET budget == MaxFaults - NFaults
     IN  \E uid \in Users, text \in Texts, resp \in DispatchResponses,
            fail \in {F \in SUBSET DispatchCalls : Cardinality(F) <= budget} :
         \E hits \in match_memories(long_term_memories, uid) :
           LET seen == SelectSeq(user_profile, LAMBDA r :
                         \A k \in Msgs : pc[k] = "reply" => user_id[k] # r.user_id)
               f == get_or_create_user(seen, uid,
                                       "select" \notin fail, "insert" \notin fail)
               g == [f EXCEPT !.table = IF f.table = seen THEN user_profile
                                        ELSE Append(user_profile, f.ret)]
               mem == get_semantic_memories(long_term_memories, uid, text,
                                            "embed" \notin fail, "rpc" \notin fail, hits)
               wx == get_weather_context(text, resp)
               \* how far the try block gets: lines 107, 108, 109, 126
               p_ok == ~g.raised
               m_ok == p_ok /\ ~mem.raised
               w_ok == m_ok /\ ~wx.raised
               r_ok == w_ok /\ "generate" \notin fail
               contents == Prompt(g.ret, mem.ret, wx.ret, text)
               failed == (IF g.failed THEN {"profile"} ELSE {})
                  \cup (IF p_ok /\ mem.failed THEN {"memory"} ELSE {})
                  \cup (IF m_ok /\ wx.looked_up # <<>> /\ wx.ret = <<>>
                        THEN {"weather"} ELSE {})
                  \cup (IF w_ok /\ ~r_ok THEN {"generate"} ELSE {})
           IN  /\ Cardinality(failed) <= budget
               /\ user_id' = [user_id EXCEPT ![m] = uid]
               /\ user_input' = [user_input EXCEPT ![m] = text]
               /\ user_profile' = g.table
               /\ profile' = [profile EXCEPT ![m] = IF p_ok THEN g.ret ELSE @]
               /\ fetched' = [fetched EXCEPT ![m] =
                                IF p_ok THEN g.ret.personality_summary ELSE @]
               /\ past_memories' = [past_memories EXCEPT ![m] =
                                      IF m_ok THEN mem.ret ELSE @]
               /\ weather_info' = [weather_info EXCEPT ![m] =
                                     IF w_ok THEN wx.ret ELSE @]
               /\ looked_up' = [looked_up EXCEPT ![m] =
                                  IF m_ok THEN wx.looked_up ELSE @]
               /\ bot_reply' = [bot_reply EXCEPT ![m] =
                    IF r_ok THEN generate_content("gemini-2.5-flash", contents) ELSE @]
               /\ faults' = [faults EXCEPT ![m] = failed]
               /\ pc' = [pc EXCEPT ![m] = IF r_ok THEN "reply" ELSE "apology"]
  /\ UNCHANGED <<outbox, chat_logs, long_term_memories, ready, spawned, whist, alone>>

\* lines 103-131 and the call of line 132, or of line 138 when a statement
\* of the try block raises: one step of the event loop.  fail: the calls that
\* raise if they are made; resp: the answer of the weather service; hits: the
\* answer of the similarity search.
HandleMessage(m) ==
  /\ pc[m] = "new"
  /\ \A k \in Msgs : k < m => pc[k] # "new"
  /\ LET budget == MaxFaults - NFaults
     IN  \E uid \in Users, text \in Texts, resp \in DispatchResponses,
            fail \in {F \in SUBSET DispatchCalls : Cardinality(F) <= budget} :
         \E hits \in match_memories(long_term_memories, uid) :
           LET g == get_or_create_user(user_profile, uid,
                                       "select" \notin fail, "insert" \notin fail)
               mem == get_semantic_memories(long_term_memories, uid, text,
                                            "embed" \notin fail, "rpc" \notin fail, hits)
               wx == get_weather_context(text, resp)
               \* how far the try block gets: lines 107, 108, 109, 126
               p_ok == ~g.raised
               m_ok == p_ok /\ ~mem.raised
               w_ok == m_ok /\ ~wx.raised
               r_ok == w_ok /\ "generate" \notin fail
               contents == Prompt(g.ret, mem.ret, wx.ret, text)
               failed == (IF g.failed THEN {"profile"} ELSE {})
                  \cup (IF p_ok /\ mem.failed THEN {"memory"} ELSE {})
                  \cup (IF m_ok /\ wx.looked_up # <<>> /\ wx.ret = <<>>
                        THEN {"weather"} ELSE {})
                  \cup (IF w_ok /\ ~r_ok THEN {"generate"} ELSE {})
           IN  /\ Cardinality(failed) <= budget
               /\ user_id' = [user_id EXCEPT ![m] = uid]
               /\ user_input' = [user_input EXCEPT ![m] = text]
               /\ user_profile' = g.table
               /\ profile' = [profile EXCEPT ![m] = IF p_ok THEN g.ret ELSE @]
               /\ fetched' = [fetched EXCEPT ![m] =
                                IF p_ok THEN g.ret.personality_summary ELSE @]
               /\ past_memories' = [past_memories EXCEPT ![m] =
                                      IF m_ok THEN mem.ret ELSE @]
               /\ weather_info' = [weather_info EXCEPT ![m] =
                                     IF w_ok THEN wx.ret ELSE @]
               /\ looked_up' = [looked_up EXCEPT ![m] =
                                  IF m_ok THEN wx.looked_up ELSE @]
               /\ bot_reply' = [bot_reply EXCEPT ![m] =
                    IF r_ok THEN generate_content("gemini-2.5-flash", contents) ELSE @]
               /\ faults' = [faults EXCEPT ![m] = failed]
               /\ pc' = [pc EXCEPT ![m] = IF r_ok THEN "reply" ELSE "apology"]
  /\ UNCHANGED <<outbox, chat_logs, long_term_memories, ready, spawned, whist, alone>>

\* the task line 134 creates for update m
EvolutionTask(m) ==
  [msg |-> m, user_id |-> user_id[m], text |-> user_input[m],
   old_summary |-> profile[m].personality_summary, bot_reply |-> bot_reply[m]]

\* ReplyReturns with the task created in a finally clause: also when line
\* 132 raised
ReplyReturnsSpawnsAlways(m) ==
  /\ pc[m] = "reply"
  /\ \E sent \in BOOLEAN :
       /\ ready' = Append(ready, EvolutionTask(m))
       /\ spawned' = [spawned EXCEPT ![m] = @ + 1]
       /\ IF sent
          THEN /\ outbox' = [outbox EXCEPT ![m] = Append(@, bot_reply[m])]
               /\ pc' = [pc EXCEPT ![m] = "done"]
               /\ DropLocals(m)
               /\ UNCHANGED faults
          ELSE /\ NFaults < MaxFaults
               /\ faults' = [faults EXCEPT ![m] = @ \cup {"reply"}]
               /\ pc' = [pc EXCEPT ![m] = "apology"]
               /\ UNCHANGED <<locals, outbox>>
  /\ UNCHANGED <<tables, fetched, looked_up, whist, alone>>

\* line 132 returns and line 134 creates the task, or line 132 raises and
\* lines 136-138 call reply_text with the apology
ReplyReturns(m) ==
  /\ pc[m] = "reply"
  /\ \E sent \in BOOLEAN :
       IF sent
       THEN /\ outbox' = [outbox EXCEPT ![m] = Append(@, bot_reply[m])]
            /\ ready' = Append(ready, EvolutionTask(m))
            /\ spawned' = [spawned EXCEPT ![m] = @ + 1]
            /\ pc' = [pc EXCEPT ![m] = "done"]
            /\ DropLocals(m)
            /\ UNCHANGED faults
       ELSE /\ NFaults < MaxFaults
            /\ faults' = [faults EXCEPT ![m] = @ \cup {"reply"}]
            /\ pc' = [pc EXCEPT ![m] = "apology"]
            /\ UNCHANGED <<locals, outbox, ready, spawned>>
  /\ UNCHANGED <<tables, fetched, looked_up, whist, alone>>

\* line 132 returns and line 134 raises: lines 136-138 call reply_text with
\* the apology after the reply was delivered
SpawnRaises(m) ==
  /\ pc[m] = "reply"
  /\ NFaults < MaxFaults
  /\ outbox' = [outbox EXCEPT ![m] = Append(@, bot_reply[m])]
  /\ faults' = [faults EXCEPT ![m] = @ \cup {"spawn"}]
  /\ pc' = [pc EXCEPT ![m] = "apology"]
  /\ UNCHANGED <<locals, tables, ready, fetched, looked_up, spawned, whist, alone>>

\* ApologyReturns with the task created after the apology as well
ApologyReturnsSpawns(m) ==
  /\ pc[m] = "apology"
  /\ \E sent \in BOOLEAN :
       IF sent
       THEN /\ outbox' = [outbox EXCEPT ![m] = Append(@, Apology)]
            /\ pc' = [pc EXCEPT ![m] = "done"]
            /\ ready' = Append(ready, EvolutionTask(m))
            /\ spawned' = [spawned EXCEPT ![m] = @ + 1]
            /\ UNCHANGED faults
       ELSE /\ NFaults < MaxFaults
            /\ faults' = [faults EXCEPT ![m] = @ \cup {"apology"}]
            /\ pc' = [pc EXCEPT ![m] = "raised"]
            /\ UNCHANGED <<outbox, ready, spawned>>
  /\ DropLocals(m)
  /\ UNCHANGED <<tables, fetched, looked_up, whist, alone>>

\* line 138 returns, or raises out of handle_message
ApologyReturns(m) ==
  /\ pc[m] = "apology"
  /\ \E sent \in BOOLEAN :
       IF sent
       THEN /\ outbox' = [outbox EXCEPT ![m] = Append(@, Apology)]
            /\ pc' = [pc EXCEPT ![m] = "done"]
            /\ UNCHANGED faults
       ELSE /\ NFaults < MaxFaults
            /\ faults' = [faults EXCEPT ![m] = @ \cup {"apology"}]
            /\ pc' = [pc EXCEPT ![m] = "raised"]
            /\ UNCHANGED outbox
  /\ DropLocals(m)
  /\ UNCHANGED <<tables, ready, fetched, looked_up, spawned, whist, alone>>

\* the remote calls of lines 144-167
WorkerCalls == {"log", "embed", "mem", "reflect", "update"}

\* the event loop runs the oldest task: lines 140-172 in one step.  fail: the
\* calls that raise if they are made.
BackgroundEvolution ==
  /\ ready # <<>>
  /\ \E fail \in SUBSET WorkerCalls :
       LET t == Head(ready)
           db == [user_profile |-> user_profile, chat_logs |-> chat_logs,
                  long_term_memories |-> long_term_memories]
           w == background_evolution(db, t.user_id, t.text, t.old_summary, t.bot_reply,
                  [c \in WorkerCalls |-> c \notin fail])
       IN  /\ NFaults + Cardinality(w.raised) <= MaxFaults
           /\ user_profile' = w.db.user_profile
           /\ chat_logs' = w.db.chat_logs
           /\ long_term_memories' = w.db.long_term_memories
           /\ wcalls' = [wcalls EXCEPT ![t.msg] = @ \o w.calls]
           /\ wraised' = [wraised EXCEPT ![t.msg] = @ \cup w.raised]
           /\ wcaught' = [wcaught EXCEPT ![t.msg] = w.caught]
           /\ wprompt' = [wprompt EXCEPT ![t.msg] = w.prompt]
           /\ log_row' = [log_row EXCEPT ![t.msg] =
                  IF Len(w.db.chat_logs) > Len(chat_logs) THEN Len(w.db.chat_logs) ELSE @]
           /\ mem_row' = [mem_row EXCEPT ![t.msg] =
                  IF Len(w.db.long_term_memories) > Len(long_term_memories)
                  THEN Len(w.db.long_term_memories) ELSE @]
           /\ last_writer' = [last_writer EXCEPT ![t.user_id] =
                  IF w.stored # <<>> /\ \E j \in 1..Len(user_profile) :
                                          user_profile[j].user_id = t.user_id
                  THEN t.msg ELSE @]
  /\ ready' = Tail(ready)
  /\ UNCHANGED <<pc, locals, outbox, dhist, spawned, alone>>

Next ==
  \/ \E m \in Msgs : IgnoreUpdate(m)
  \/ \E m \in Msgs : HandleMessage(m)
  \/ \E m \in Msgs : ReplyReturns(m)
  \/ \E m \in Msgs : ApologyReturns(m)
  \/ BackgroundEvolution

Spec == Init /\ [][Next]_vars

\* the dispatch when the statement of line 134 can raise too
NextSpawnFault ==
  \/ Next
  \/ \E m \in Msgs : SpawnRaises(m)

SpecSpawnFault == Init /\ [][NextSpawnFault]_vars

\* ------------------------------------------- get_weather_context alone
\* the parts the texts of the weather calls are made of: three names of
\* city_map, the two keywords (the second with a capital) and a greeting
Pieces ==
  { <<"U+53F0", "U+5317">>, <<"U+81FA", "U+4E2D">>, <<"U+9AD8", "U+96C4">>,
    KwTianQi, <<"W", "e", "a", "t", "h", "e", "r">>, TextHello }

\* number of parts in a text
MaxPieces == 3

RECURSIVE TextsOf(_)
\* the texts of n parts
TextsOf(n) ==
  IF n = 0 THEN {<<>>}
  ELSE {p \o t : p \in Pieces, t \in TextsOf(n - 1)}

\* the texts get_weather_context is called with (update.message.text is not
\* empty, line 101)
WeatherTexts == UNION {TextsOf(n) : n \in 1..MaxPieces} \cup {TextTaipeiWeather}

\* the profile and the memory context of a first message
FirstProfile == [user_id |-> 42, personality_summary |-> ProfileColumnDefault]

InitWeather ==
  /\ Idle
  /\ call \in [fn : {"get_weather_context"}, text : WeatherTexts,
                resp : WeatherResponses]
  /\ result = NoCall

\* line 109 with the text and the answer of call, and lines 112-131 on what
\* it returns
WeatherCall ==
  /\ call.fn = "get_weather_context"
  /\ result = NoCall
  /\ LET wx == get_weather_context(call.text, call.resp)
     IN  result' = [fn |-> "get_weather_context", ret |-> wx.ret,
                    looked_up |-> wx.looked_up, raised |-> wx.raised,
                    bot_reply |->
                      IF wx.raised THEN <<>>
                      ELSE generate_content("gemini-2.5-flash",
                             Prompt(FirstProfile, NoMemories, wx.ret, call.text))]
  /\ UNCHANGED <<pc, locals, outbox, tables, ready, dhist, spawned, whist, call>>

NextWeather == WeatherCall

SpecWeather == InitWeather /\ [][NextWeather]_vars

\* ------------------------------------------ get_semantic_memories alone
\* number of memory rows the calling user has stored
MaxStored == 3

\* long_term_memories after MaxStored answered updates of user 42, with texts
\* that repeat, and one of the bystander
MemoryTable ==
  [i \in 1..MaxStored |->
     LET text == IF i % 2 = 1 THEN TextHello ELSE TextTaipeiWeather
     IN  [user_id |-> 42, content |-> text,
          embedding |-> embed_content("text-embedding-004", text)]]
  \o << [user_id |-> Bystander.user_id, content |-> KwWeather,
         embedding |-> embed_content("text-embedding-004", KwWeather)] >>

InitMemories ==
  /\ Idle
  /\ \E uid \in {42, Bystander.user_id}, text \in Texts, emb_ok, rpc_ok \in BOOLEAN :
       \E hits \in match_memories(MemoryTable, uid) :
         call = [fn |-> "get_semantic_memories", table |-> MemoryTable,
                 uid |-> uid, text |-> text, emb_ok |-> emb_ok,
                 rpc_ok |-> rpc_ok, hits |-> hits]
  /\ result = NoCall

\* line 108 with the arguments and the answers of call
MemoryCall ==
  /\ call.fn = "get_semantic_memories"
  /\ result = NoCall
  /\ LET mem == get_semantic_memories(call.table, call.uid, call.text,
                                      call.emb_ok, call.rpc_ok, call.hits)
     IN  result' = [fn |-> "get_semantic_memories", ret |-> mem.ret,
                    failed |-> mem.failed, raised |-> mem.raised]
  /\ UNCHANGED <<pc, locals, outbox, tables, ready, dhist, spawned, whist, call>>

NextMemories == MemoryCall

SpecMemories == InitMemories /\ [][NextMemories]_vars

\* ------------------------------------------------------------ vocabulary
\* a text the reply model produced (line 131)
IsGenerated(txt) == Len(txt) > 0 /\ txt[1] = "gemini-2.5-flash"

\* the update carried a text, and handle_message has returned
Returned(m) == pc[m] = "done" /\ user_input[m] # <<>>

\* the tasks of update m that wait in the event loop
Waiting(m) == {i \in 1..Len(ready) : ready[i].msg = m}

\* the worker of update m has run
WorkerRan(m) == wcalls[m] # <<>>

\* the dispatch of update m went on past a failed accessor: only a failure
\* of the generation or of the sending brings the apology
GoesOnToReply(m) ==
  /\ "generate" \notin faults[m] =>
       /\ pc[m] = "apology" => "reply" \in faults[m]
       /\ outbox[m] # <<>> => IsGenerated(outbox[m][1]) \/ "reply" \in faults[m]
  /\ faults[m] \cap {"generate", "reply"} = {} =>
       /\ pc[m] \in {"reply", "done"}
       /\ pc[m] = "done" =>
            /\ Len(outbox[m]) = 1
            /\ IsGenerated(outbox[m][1])
            /\ spawned[m] = 1

\* ---------------------------------------------------------------- claims
\* C1: when the generation call of handle_message raises for an update, the
\* only message sent for it is the fixed apology, which is delivered by the
\* time handle_message returns; no task is created for it and no chat_logs
\* or long_term_memories row is written for it.
C1_GenerationFailure ==
  \A m \in Msgs :
    "generate" \in faults[m] =>
      /\ outbox[m] \in {<<>>, <<Apology>>}
      /\ pc[m] = "done" => outbox[m] = <<Apology>>
      /\ spawned[m] = 0
      /\ Waiting(m) = {}
      /\ ~WorkerRan(m)
      /\ log_row[m] = 0
      /\ mem_row[m] = 0
      /\ Len(chat_logs) = Cardinality({k \in Msgs : log_row[k] # 0})
      /\ Len(long_term_memories) = Cardinality({k \in Msgs : mem_row[k] # 0})

\* the generation failed for one update, its apology is delivered, and the
\* worker of another update has written its rows
C1_Witness ==
  \E m, k \in Msgs :
    /\ "generate" \in faults[m]
    /\ pc[m] = "done"
    /\ outbox[m] = <<Apology>>
    /\ log_row[k] # 0
    /\ mem_row[k] # 0

\* C2: for every update with a text, when handle_message has returned
\* exactly one message has been sent, the generated reply or the apology,
\* whichever statement of lines 107-134 raised.
C2_ExactlyOneMessage ==
  \A m \in Msgs :
    Returned(m) =>
      /\ Len(outbox[m]) = 1
      /\ outbox[m][1] = Apology \/ IsGenerated(outbox[m][1])

\* C3: a task is created exactly once for each update whose generated reply
\* was sent and for no other; the worker runs, and its rows are written, only
\* after that reply was delivered.
C3_SpawnedOncePerReply ==
  \A m \in Msgs :
    /\ spawned[m] <= 1
    /\ spawned[m] = 1 <=> (Returned(m) /\ Len(outbox[m]) = 1 /\ IsGenerated(outbox[m][1]))
    /\ Cardinality(Waiting(m)) + (IF WorkerRan(m) THEN 1 ELSE 0) = spawned[m]
    /\ (WorkerRan(m) \/ log_row[m] # 0 \/ mem_row[m] # 0) =>
          /\ spawned[m] = 1
          /\ IsGenerated(outbox[m][1])
    /\ log_row[m] # 0 => chat_logs[log_row[m]].bot_text = outbox[m][1]

\* one update was answered and its worker wrote both rows, another got the
\* apology after its reply could not be sent
C3_Witness ==
  \E m, k \in Msgs :
    /\ spawned[m] = 1
    /\ log_row[m] # 0
    /\ mem_row[m] # 0
    /\ "reply" \in faults[k]
    /\ outbox[k] = <<Apology>>
    /\ spawned[k] = 0

\* the rows of table that belong to user u
RowsOf(table, u) == {i \in 1..Len(table) : table[i].user_id = u}

\* the step is the run of the worker of update m
WorkerStep(m) == ready # <<>> /\ Head(ready).msg = m /\ ready' = Tail(ready)

\* the step is the dispatch of update m (lines 103-131)
DispatchStep(m) == pc[m] = "new" /\ pc'[m] \in {"reply", "apology"}

\* the elements of a sequence
Range(q) == {q[i] : i \in 1..Len(q)}

\* C4: the three steps of the worker (chat_logs insert; embedding and
\* long_term_memories insert; reflection and write-back) are attempted
\* independently: a worker that ran has attempted each of them, whichever
\* of them failed.
C4_StepsIndependent ==
  \A m \in Msgs :
    WorkerRan(m) => {"log", "embed", "reflect"} \subseteq Range(wcalls[m])

\* C5: when the reflection request of the worker raises after the two
\* inserts succeeded, the exception is caught by the inner handler (line
\* 168); the chat_logs row and the long_term_memories row of the update stay
\* stored, and the step leaves user_profile as it was.
C5_ReflectionFailure ==
  /\ [](\A m \in Msgs :
          "reflect" \in wraised[m] =>
            /\ wcaught[m] = "inner"
            /\ wcalls[m] = <<"log", "embed", "mem", "reflect">>
            /\ log_row[m] \in 1..Len(chat_logs)
            /\ chat_logs[log_row[m]] =
                 [user_id |-> user_id[m], user_text |-> user_input[m],
                  bot_text |-> outbox[m][1]]
            /\ mem_row[m] \in 1..Len(long_term_memories)
            /\ long_term_memories[mem_row[m]] =
                 [user_id |-> user_id[m], content |-> user_input[m],
                  embedding |-> embed_content("text-embedding-004", user_input[m])])
  /\ [][\A m \in Msgs :
          (WorkerStep(m) /\ "reflect" \in wraised'[m]) =>
            /\ user_profile' = user_profile
            /\ Len(chat_logs') = Len(chat_logs) + 1
            /\ Len(long_term_memories') = Len(long_term_memories) + 1]_vars

\* the reflection of a worker failed on a profile that an earlier worker had
\* evolved: both rows of the update are stored and the evolved summary stands
C5_Witness ==
  \E m \in Msgs, u \in Users :
    /\ "reflect" \in wraised[m]
    /\ log_row[m] # 0
    /\ mem_row[m] # 0
    /\ last_writer[u] \notin {0, m}
    /\ \E i \in RowsOf(user_profile, u) :
          user_profile[i].personality_summary # Sentinel

\* C6: when the embedding or the search of get_semantic_memories raises, the
\* function returns the empty string, no exception reaches handle_message,
\* and the dispatch goes on to the generation with an empty memory context;
\* unless the generation or the sending fails, the generated reply is what
\* the user gets, not the apology.
C6_MemoryFailure ==
  \A m \in Msgs :
    "memory" \in faults[m] =>
      /\ pc[m] \in {"reply", "apology"} => past_memories[m] = <<>>
      /\ pc[m] = "reply" =>
           bot_reply[m] = generate_content("gemini-2.5-flash",
               Prompt(profile[m], <<>>, weather_info[m], user_input[m]))
      /\ GoesOnToReply(m)

\* the memory search failed for an update of a user that has memories, and
\* the user got the generated reply
C6_Witness ==
  \E m \in Msgs :
    /\ "memory" \in faults[m]
    /\ pc[m] = "done"
    /\ IsGenerated(outbox[m][1])
    /\ RowsOf(long_term_memories, user_id[m]) # {}

\* C7: when the select or the insert of get_or_create_user raises, the
\* function returns the synthetic profile whose summary is the sentinel, no
\* exception reaches handle_message, the step writes nothing to
\* user_profile, and the dispatch goes on to the generation and the reply.
C7_ProfileFailure ==
  /\ [](\A m \in Msgs :
          "profile" \in faults[m] =>
            /\ fetched[m] = Sentinel
            /\ pc[m] \in {"reply", "apology"} =>
                 profile[m] = [personality_summary |-> Sentinel, user_id |-> user_id[m]]
            /\ \A i \in Waiting(m) : ready[i].old_summary = Sentinel
            /\ GoesOnToReply(m))
  /\ [][\A m \in Msgs :
          (DispatchStep(m) /\ "profile" \in faults'[m]) =>
             user_profile' = user_profile]_vars

\* the lookup failed for a user whose stored summary had evolved: the
\* dispatch ran with the sentinel and the user got the generated reply
C7_Witness ==
  \E m \in Msgs :
    /\ "profile" \in faults[m]
    /\ pc[m] = "done"
    /\ IsGenerated(outbox[m][1])
    /\ \E i \in RowsOf(user_profile, user_id[m]) :
          user_profile[i].personality_summary # Sentinel

\* C8: the first fetch for a user without a profile row, when its select and
\* insert succeed, appends exactly one row for the user with the default
\* summary and returns that row; a fetch for a user with a row returns the
\* stored row and writes nothing; no user ever has two rows.
C8_FirstFetchCreates ==
  /\ [][\A m \in Msgs :
          (DispatchStep(m) /\ "profile" \notin faults'[m]) =>
             LET u == user_id'[m]
                 own == RowsOf(user_profile, u)
                 fresh == [user_id |-> u, personality_summary |-> Sentinel]
             IN  IF own = {}
                 THEN /\ user_profile' = Append(user_profile, fresh)
                      /\ profile'[m] = fresh
                 ELSE /\ user_profile' = user_profile
                      /\ \E i \in own : profile'[m] = user_profile[i]]_vars
  /\ [](\A u \in Users : Cardinality(RowsOf(user_profile, u)) <= 1)

\* a later fetch returned the one row of the user, with the summary a worker
\* had stored in it
C8_Witness ==
  \E m \in Msgs :
    /\ pc[m] = "reply"
    /\ "profile" \notin faults[m]
    /\ profile[m].personality_summary # Sentinel
    /\ Cardinality(RowsOf(user_profile, user_id[m])) = 1
    /\ \E i \in RowsOf(user_profile, user_id[m]) : profile[m] = user_profile[i]

\* the worker of update m made all its calls and none raised
Wrote(m) == wcalls[m] # <<>> /\ wraised[m] = {} /\ wcalls[m][Len(wcalls[m])] = "update"

\* C9: every profile row holds one summary; and once workers have stored
\* summaries in the row of a user, the row holds the summary of the worker
\* that stored last, which is the answer to the reflection request made of
\* the text of its update and of the summary its dispatch had fetched.
C9_LastWriteWins ==
  /\ \A i \in 1..Len(user_profile) :
        DOMAIN user_profile[i] = {"user_id", "personality_summary"}
  /\ \A u \in Users :
       last_writer[u] # 0 =>
         LET w == last_writer[u]
         IN  /\ user_id[w] = u
             /\ Wrote(w)
             /\ RowsOf(user_profile, u) # {}
             /\ \A i \in RowsOf(user_profile, u) :
                  user_profile[i].personality_summary =
                    generate_content("gemini-3-flash-preview",
                                     ReflectPrompt(user_input[w], fetched[w]))

\* two workers of one user were in the event loop together and both stored;
\* the one of the update that arrived first stored last, and all is finished
C9_Witness ==
  \E u \in Users, m, k \in Msgs :
    /\ m < k
    /\ user_id[m] = u /\ user_id[k] = u
    /\ Wrote(m) /\ Wrote(k)
    /\ fetched[m] = fetched[k]
    /\ last_writer[u] = m
    /\ ready = <<>>
    /\ \A j \in Msgs : pc[j] \in {"done", "raised"}

\* C10: a step that changes the summary of a stored profile row is the run
\* of a worker of the user of that row; no step of handle_message (it moves
\* pc) changes a stored row, and no step removes a row or changes its user.
C10_OnlyWorkerChangesSummary ==
  [][/\ Len(user_profile') >= Len(user_profile)
     /\ \A i \in 1..Len(user_profile) :
          /\ user_profile'[i].user_id = user_profile[i].user_id
          /\ user_profile'[i] # user_profile[i] =>
               /\ pc' = pc
               /\ \E m \in Msgs : /\ WorkerStep(m)
                                  /\ user_id[m] = user_profile[i].user_id]_vars

\* an update was dispatched and answered on a row whose summary a worker had
\* changed, and the row still holds that summary
C10_Witness ==
  \E m \in Msgs :
    /\ pc[m] = "done"
    /\ ~WorkerRan(m)
    /\ fetched[m] \notin {<<>>, Sentinel}
    /\ \E i \in RowsOf(user_profile, user_id[m]) :
          user_profile[i].personality_summary = fetched[m]
    /\ user_profile[1] = Bystander

\* C11: chat_logs and long_term_memories only grow, and a stored row never
\* changes; every worker whose inserts succeed adds a chat_logs row and a
\* long_term_memories row of its own, also when the user has sent the same
\* text before: two answered updates with the same text leave two rows in
\* each table.
C11_AppendOnly ==
  /\ [](\A m \in Msgs :
          /\ (WorkerRan(m) /\ "log" \notin wraised[m]) =>
                /\ log_row[m] \in 1..Len(chat_logs)
                /\ chat_logs[log_row[m]] =
                     [user_id |-> user_id[m], user_text |-> user_input[m],
                      bot_text |-> outbox[m][1]]
          /\ (WorkerRan(m) /\ wraised[m] \cap {"log", "embed", "mem"} = {}) =>
                /\ mem_row[m] \in 1..Len(long_term_memories)
                /\ long_term_memories[mem_row[m]] =
                     [user_id |-> user_id[m], content |-> user_input[m],
                      embedding |-> embed_content("text-embedding-004", user_input[m])]
          /\ \A k \in Msgs \ {m} :
                /\ log_row[m] # 0 => log_row[k] # log_row[m]
                /\ mem_row[m] # 0 => mem_row[k] # mem_row[m])
  /\ [][/\ Len(chat_logs') >= Len(chat_logs)
        /\ \A i \in 1..Len(chat_logs) : chat_logs'[i] = chat_logs[i]
        /\ Len(long_term_memories') >= Len(long_term_memories)
        /\ \A i \in 1..Len(long_term_memories) :
             long_term_memories'[i] = long_term_memories[i]]_vars

\* one user sent the same text twice, both updates were answered and both
\* workers ran without a failure: two equal memory rows are stored
C11_Witness ==
  \E m, k \in Msgs :
    /\ m # k
    /\ user_id[m] = user_id[k]
    /\ user_input[m] = user_input[k]
    /\ Wrote(m) /\ Wrote(k)
    /\ log_row[m] # log_row[k]
    /\ mem_row[m] # mem_row[k]
    /\ long_term_memories[mem_row[m]] = long_term_memories[mem_row[k]]
    /\ Len(chat_logs) = 2

\* C12: a call of the worker that raises is caught inside
\* background_evolution (line 168 or line 171) and is the end of it: the worker
\* makes no call twice, its task is not put back in the event loop, at most
\* one row per table is written for the update, and the run of a worker sends
\* nothing to the user and moves no handle_message: the one message of the
\* update stays the generated reply.
C12_WorkerFailureSilent ==
  /\ [](\A m \in Msgs :
          /\ wraised[m] # {} =>
                /\ wcaught[m] \in {"inner", "outer"}
                /\ Cardinality(wraised[m]) = 1
                /\ \A c \in wraised[m] : wcalls[m][Len(wcalls[m])] = c
          /\ \A i, j \in 1..Len(wcalls[m]) : i # j => wcalls[m][i] # wcalls[m][j]
          /\ WorkerRan(m) =>
                /\ Waiting(m) = {}
                /\ spawned[m] = 1
                /\ Len(outbox[m]) = 1
                /\ IsGenerated(outbox[m][1])
                /\ pc[m] = "done")
  /\ [](/\ Len(chat_logs) = Cardinality({m \in Msgs : log_row[m] # 0})
        /\ Len(long_term_memories) = Cardinality({m \in Msgs : mem_row[m] # 0}))
  /\ [][wcalls' # wcalls =>
          /\ outbox' = outbox
          /\ pc' = pc
          /\ ready' = Tail(ready)]_vars

\* the worker of one update failed in the outer try and the worker of
\* another in the inner one; all tasks have run, and each of the two updates
\* has its generated reply and nothing else
C12_Witness ==
  \E m, k \in Msgs :
    /\ wraised[m] \cap {"log", "embed", "mem"} # {}
    /\ wcaught[m] = "outer"
    /\ wraised[k] \cap {"reflect", "update"} # {}
    /\ wcaught[k] = "inner"
    /\ ready = <<>>
    /\ Len(outbox[m]) = 1 /\ IsGenerated(outbox[m][1])
    /\ Len(outbox[k]) = 1 /\ IsGenerated(outbox[k][1])

\* the text holds a weather keyword: "U+5929 U+6C23", or "weather" in any
\* mix of capitals and small letters
HasKeyword(text) ==
  \/ \E i \in 1..(Len(text) - 1) : text[i] = "U+5929" /\ text[i + 1] = "U+6C23"
  \/ \E i \in 0..(Len(text) - 7) :
        /\ text[i + 1] \in {"w", "W"}
        /\ text[i + 2] \in {"e", "E"}
        /\ text[i + 3] \in {"a", "A"}
        /\ text[i + 4] \in {"t", "T"}
        /\ text[i + 5] \in {"h", "H"}
        /\ text[i + 6] \in {"e", "E"}
        /\ text[i + 7] \in {"r", "R"}

\* the weather request was answered in time with status 200 and a payload
\* that holds the fields read
LookupSucceeded(resp) ==
  ~resp.raised /\ resp.status_code = 200 /\ resp.wellformed

\* C13: for a text without a weather keyword get_weather_context returns the
\* empty string and makes no request; for a text with a keyword it makes the
\* request and returns a non-empty enrichment exactly when the request
\* succeeded, the empty string on every failure; it never raises, and the
\* reply is generated with what it returned.
C13_WeatherEnrichment ==
  result.fn = "get_weather_context" =>
    /\ ~HasKeyword(call.text) =>
          /\ result.ret = <<>>
          /\ result.looked_up = <<>>
    /\ HasKeyword(call.text) =>
          /\ result.looked_up # <<>>
          /\ result.ret # <<>> <=> LookupSucceeded(call.resp)
    /\ ~result.raised
    /\ result.bot_reply = generate_content("gemini-2.5-flash",
          Prompt(FirstProfile, NoMemories, result.ret, call.text))

\* a text with the keyword "Weather" and a city, answered with status 500:
\* the enrichment is empty and the reply is generated
C13_Witness ==
  /\ result.fn = "get_weather_context"
  /\ Contains(call.text, <<"W", "e", "a", "t", "h", "e", "r">>)
  /\ Contains(call.text, <<"U+9AD8", "U+96C4">>)
  /\ call.resp.status_code = 500
  /\ result.ret = <<>>
  /\ result.looked_up = Kaohsiung
  /\ IsGenerated(result.bot_reply)

RECURSIVE Split(_)
\* the lines of a text: s.split("\n")
Split(s) ==
  IF \A i \in 1..Len(s) : s[i] # "\n" THEN <<s>>
  ELSE LET i == CHOOSE i \in 1..Len(s) :
                   s[i] = "\n" /\ \A j \in 1..(i - 1) : s[j] # "\n"
       IN  <<SubSeq(s, 1, i - 1)>> \o Split(SubSeq(s, i + 1, Len(s)))

\* the contents the search of the call returned, in the order returned
SearchContents == [i \in 1..Len(call.hits) |-> call.table[call.hits[i]].content]

\* the call of get_semantic_memories has returned and neither the embedding
\* nor the search had failed
SearchSucceeded ==
  result.fn = "get_semantic_memories" /\ call.emb_ok /\ call.rpc_ok

\* C14: when the embedding and the search succeed, the memory context is the
\* contents the search returned, one per line and in the order returned, and
\* nothing else; it is empty when the search returns no match.
C14_MemoryContext ==
  SearchSucceeded =>
    IF call.hits = <<>> THEN result.ret = <<>>
    ELSE Split(result.ret) = SearchContents

\* C14 as amended: when the embedding and the search succeed and the search
\* returns at least one match, the memory context is the contents returned,
\* one per line and in the order returned, and nothing else; when the search
\* returns no match, the memory context is the fixed text of line 58, and it
\* is not empty.
C14_MemoryContextOrPlaceholder ==
  SearchSucceeded =>
    /\ ~result.raised
    /\ IF call.hits = <<>> THEN result.ret = NoMemories /\ result.ret # <<>>
       ELSE Split(result.ret) = SearchContents

\* the search returned three rows of the user, not in the order of their
\* insertion and two of them with the same content: the context has three
\* lines
C14_Witness ==
  /\ SearchSucceeded
  /\ Len(call.hits) = 3
  /\ call.hits[1] > call.hits[2]
  /\ SearchContents[1] = SearchContents[3]
  /\ Len(Split(result.ret)) = 3
  /\ Split(result.ret)[2] = TextTaipeiWeather

\* C15: the summary in the reflection request of a worker is the one the
\* profile fetch of its own update returned (the task carries it from line
\* 134); the worker does not read the profile again, so its write-back puts
\* the answer to that request in the row of the user also when the row
\* holds another summary by then: the update of the worker that wrote in
\* between is lost.
C15_StaleSummary ==
  /\ [](/\ \A i \in 1..Len(ready) : ready[i].old_summary = fetched[ready[i].msg]
        /\ \A m \in Msgs :
             wprompt[m] # <<>> =>
               wprompt[m] = ReflectPrompt(user_input[m], fetched[m]))
  /\ [][\A m \in Msgs :
          (WorkerStep(m) /\ Wrote(m)') =>
             \A i \in RowsOf(user_profile, user_id[m]) :
               /\ user_profile'[i].user_id = user_id[m]
               /\ user_profile'[i].personality_summary =
                    generate_content("gemini-3-flash-preview",
                                     ReflectPrompt(user_input[m], fetched[m]))]_vars

\* two updates of one user fetched the same summary; the worker of the first
\* stored its summary, then the worker of the second stored one made of the
\* summary fetched, in which nothing of the first is left
C15_Witness ==
  \E m, k \in Msgs :
    /\ m < k
    /\ user_id[m] = user_id[k]
    /\ Wrote(m) /\ Wrote(k)
    /\ fetched[m] = Sentinel /\ fetched[k] = Sentinel
    /\ last_writer[user_id[k]] = k
    /\ user_input[m] # user_input[k]
    /\ \A i \in RowsOf(user_profile, user_id[k]) :
          /\ user_profile[i].personality_summary =
               generate_content("gemini-3-flash-preview",
                                ReflectPrompt(user_input[k], Sentinel))
          /\ ~Contains(user_profile[i].personality_summary, user_input[m])

\* every user that has a row in a table
Known == Users \cup {Bystander.user_id}

\* the updates of user u whose generated reply was delivered
Answered(u) ==
  {m \in Msgs : user_id[m] = u /\ outbox[m] # <<>> /\ IsGenerated(outbox[m][1])}

\* C16: for every user, the long_term_memories rows are at most as many as
\* the chat_logs rows, and these at most as many as the generated replies
\* delivered to the user; and a worker stores a summary only after it has
\* written the chat_logs row and the long_term_memories row of its update.
C16_RowCounts ==
  /\ \A u \in Known :
       /\ Cardinality(RowsOf(long_term_memories, u))
            <= Cardinality(RowsOf(chat_logs, u))
       /\ Cardinality(RowsOf(chat_logs, u)) <= Cardinality(Answered(u))
  /\ \A m \in Msgs :
       /\ mem_row[m] # 0 => log_row[m] # 0
       /\ log_row[m] # 0 => m \in Answered(user_id[m])
       /\ ("update" \in Range(wcalls[m]) /\ "update" \notin wraised[m]) =>
            /\ wcalls[m] = <<"log", "embed", "mem", "reflect", "update">>
            /\ log_row[m] \in RowsOf(chat_logs, user_id[m])
            /\ chat_logs[log_row[m]].user_text = user_input[m]
            /\ mem_row[m] \in RowsOf(long_term_memories, user_id[m])
            /\ long_term_memories[mem_row[m]].content = user_input[m]
  /\ \A u \in Users :
       last_writer[u] # 0 => log_row[last_writer[u]] # 0 /\ mem_row[last_writer[u]] # 0

\* a user got two generated replies, one worker stopped after its chat_logs
\* row and the other before it: no memory row, one chat_logs row, two replies
C16_Witness ==
  \E u \in Users :
    /\ Cardinality(Answered(u)) = 2
    /\ Cardinality(RowsOf(chat_logs, u)) = 1
    /\ Cardinality(RowsOf(long_term_memories, u)) = 0
    /\ ready = <<>>

\* C17: no two rows of user_profile have the same user_id, whatever the
\* number of updates of a user and the order in which their dispatches and
\* workers take their steps; an update whose profile fetch did not fail
\* leaves exactly one row for its user.
C17_OneProfilePerUser ==
  /\ \A i, j \in 1..Len(user_profile) :
       i # j => user_profile[i].user_id # user_profile[j].user_id
  /\ \A m \in Msgs :
       (user_input[m] # <<>> /\ "profile" \notin faults[m]) =>
          Cardinality(RowsOf(user_profile, user_id[m])) = 1

\* two updates of a user without a profile are both past their fetch and
\* both wait for reply_text: the first fetch made the row, the second found it
C17_Witness ==
  \E m, k \in Msgs :
    /\ m # k
    /\ user_id[m] = user_id[k]
    /\ pc[m] = "reply" /\ pc[k] = "reply"
    /\ "profile" \notin faults[m] \cup faults[k]
    /\ fetched[m] = Sentinel /\ fetched[k] = Sentinel
    /\ Cardinality(RowsOf(user_profile, user_id[m])) = 1
    /\ Len(user_profile) = 2

\* the entries of city_map whose name occurs in the text
NamesIn(text) == {i \in 1..Len(city_map) : Contains(text, city_map[i].k)}

\* C18: for a text with a weather keyword, the city of the request is the
\* canonical name of a city_map entry whose name occurs in the text; it is
\* Taipei when no name occurs; when several names occur it is that of the
\* entry that comes first in city_map, wherever the names stand in the text;
\* and the enrichment of a successful request is about that city.
C18_CityLookedUp ==
  (result.fn = "get_weather_context" /\ HasKeyword(call.text)) =>
    LET present == NamesIn(call.text)
    IN  /\ present = {} => result.looked_up = Taipei
        /\ present # {} =>
              \E i \in present :
                 /\ \A j \in present : i <= j
                 /\ result.looked_up = city_map[i].v
        /\ call.text = TextTaipeiWeather => result.looked_up = Taipei
        /\ LookupSucceeded(call.resp) =>
              SubSeq(result.ret, 1, Len(WxHead) + Len(result.looked_up) + 1)
                = WxHead \o result.looked_up \o <<"]">>

\* in the text the name of Kaohsiung stands before the name of Taipei, and
\* the request, which succeeded, was made for Taipei
C18_Witness ==
  /\ result.fn = "get_weather_context"
  /\ call.text = <<"U+9AD8", "U+96C4">> \o <<"U+53F0", "U+5317">> \o KwTianQi
  /\ LookupSucceeded(call.resp)
  /\ result.looked_up = Taipei
  /\ Contains(result.ret, Taipei)

TypeOK ==
  /\ pc \in [Msgs -> {"new", "reply", "apology", "done", "raised"}]
  /\ spawned \in [Msgs -> 0..1]

====
